---- MODULE Spec2Model ----
(***************************************************************************)
(* BNPL loan calculator: the useCalculator hook in its three revisions     *)
(*   "current"  src/src/app/hooks/useCalculator.ts  (selectable fee mode,  *)
(*              tolerant 30% rule)                                         *)
(*   "feeAware" src/unnamed/part_002                (fee-aware 30% rule)   *)
(*   "strict"   src/unnamed/part_003                (strict 30% rule,      *)
(*              threshold-subtract fees, tiered rate)                      *)
(*                                                                         *)
(* A JavaScript number is modelled as an exact fraction <<n, d>> in lowest *)
(* terms with d > 0; the non-finite values are <<0, 0>> (NaN), <<1, 0>>    *)
(* (+Infinity) and <<-1, 0>> (-Infinity).  Binary rounding of the IEEE     *)
(* double is not modelled: every arithmetic result is the exact one.       *)
(* Amounts are in naira, as in the source.                                 *)
(***************************************************************************)
EXTENDS Integers, FiniteSets, Sequences, TLC

VARIABLES
    rev,           \* which revision of the hook this behaviour runs
    results,       \* useState<LoanResults>
    isCalculated,  \* useState(false)
    errors,        \* useState<{...}>({})
    inputs,        \* argument of the last calculateLoan invocation
    op,            \* the last operation invoked on the hook
    divisors,      \* denominators of the divisions the last invocation evaluated
    branch,        \* fee-handling branch the last invocation took
    repeated,      \* the last invocation repeated the inputs of the one before
    form           \* the page's useState<string> fields and its fee-mode select

vars ==
    <<rev, results, isCalculated, errors, inputs, op, divisors, branch,
      repeated, form>>

----------------------------------------------------------------------------
(* JavaScript numbers *)

RECURSIVE GCD(_, _)
GCD(a, b) == IF b = 0 THEN a ELSE GCD(b, a % b)

AbsInt(n) == IF n < 0 THEN -n ELSE n

SignInt(n) == IF n < 0 THEN -1 ELSE IF n > 0 THEN 1 ELSE 0

Norm(n, d) ==
    IF d = 0 THEN <<SignInt(n), 0>>
    ELSE LET g == GCD(AbsInt(n), AbsInt(d))
             s == SignInt(d)
         IN  <<(s * n) \div g, (s * d) \div g>>

Num(n) == <<n, 1>>

Frac(n, d) == Norm(n, d)

NaN == <<0, 0>>

Infinity == <<1, 0>>

isNaN(x) == x = NaN

isFinite(x) == x[2] # 0

\* a + b
Add(a, b) ==
    IF isNaN(a) \/ isNaN(b) THEN NaN
    ELSE IF ~isFinite(a) /\ ~isFinite(b) THEN (IF a = b THEN a ELSE NaN)
    ELSE IF ~isFinite(a) THEN a
    ELSE IF ~isFinite(b) THEN b
    ELSE Norm(a[1] * b[2] + b[1] * a[2], a[2] * b[2])

Neg(a) == <<-a[1], a[2]>>

\* a - b
Sub(a, b) == Add(a, Neg(b))

\* a * b
Mul(a, b) ==
    IF isNaN(a) \/ isNaN(b) THEN NaN
    ELSE IF ~isFinite(a) \/ ~isFinite(b)
         THEN <<SignInt(a[1]) * SignInt(b[1]), 0>>
    ELSE Norm(a[1] * b[1], a[2] * b[2])

\* a / b
Div(a, b) ==
    IF isNaN(a) \/ isNaN(b) THEN NaN
    ELSE IF ~isFinite(b) THEN (IF isFinite(a) THEN Num(0) ELSE NaN)
    ELSE IF ~isFinite(a) THEN <<a[1] * (IF b[1] < 0 THEN -1 ELSE 1), 0>>
    ELSE Norm(a[1] * b[2], a[2] * b[1])

\* a < b (false when either side is NaN)
Lt(a, b) ==
    /\ ~isNaN(a)
    /\ ~isNaN(b)
    /\ IF isFinite(a) /\ isFinite(b) THEN a[1] * b[2] < b[1] * a[2]
       ELSE IF ~isFinite(a) /\ ~isFinite(b) THEN a[1] < b[1]
       ELSE IF ~isFinite(a) THEN a[1] < 0
       ELSE b[1] > 0

\* a <= b (false when either side is NaN)
Le(a, b) == ~isNaN(a) /\ ~isNaN(b) /\ (a = b \/ Lt(a, b))

\* a > b
Gt(a, b) == Lt(b, a)

\* a >= b
Ge(a, b) == Le(b, a)

\* Math.abs
MathAbs(a) == <<AbsInt(a[1]), a[2]>>

\* Math.max(a, b): NaN when either argument is NaN
MathMax(a, b) ==
    IF isNaN(a) \/ isNaN(b) THEN NaN ELSE IF Lt(a, b) THEN b ELSE a

\* Math.min(a, b): NaN when either argument is NaN
MathMin(a, b) ==
    IF isNaN(a) \/ isNaN(b) THEN NaN ELSE IF Lt(b, a) THEN b ELSE a

----------------------------------------------------------------------------
(* Values shared by the three revisions *)

Zero == Num(0)

Fields == {"itemCost", "downPayment", "tenure", "merchantFee"}

NoErrors == [f \in {} |-> ""]

\* the error object built by the independent if-statements of the validation:
\* one entry for every field whose rule is violated
ErrorObject(bad, msg) == [f \in {g \in Fields : bad[g]} |-> msg[f]]

\* const epsilon = 0.5
epsilon == Frac(1, 2)

\* const adjustmentFee = 6000
adjustmentFee == Num(6000)

\* const thirtyPercentOfItem = itemCost * 0.30
thirtyPercentOfItem(itemCost) == Mul(itemCost, Frac(3, 10))

\* isExactThirty with < epsilon in place of <= epsilon
isExactThirtyStrictlyWithin(i) ==
    Lt(MathAbs(Sub(i.downPayment, thirtyPercentOfItem(i.itemCost))), epsilon)

\* const isExactThirty = Math.abs(downPayment - thirtyPercentOfItem) <= epsilon
isExactThirty(i) ==
    Le(MathAbs(Sub(i.downPayment, thirtyPercentOfItem(i.itemCost))), epsilon)

\* const percentageFee = itemCost * (merchantFee / 100)
percentageFee(i) == Mul(i.itemCost, Div(i.merchantFee, Num(100)))

\* totalFixedCharges with the percentage fee taken off the adjustment fee
totalFixedChargesLessFee(i) == Sub(adjustmentFee, percentageFee(i))

\* const totalFixedCharges = percentageFee + adjustmentFee
totalFixedCharges(i) == Add(percentageFee(i), adjustmentFee)

\* Object.keys(errors).length > 0
HasErrors(e) == DOMAIN e # {}

----------------------------------------------------------------------------
(* Revision "current": src/src/app/hooks/useCalculator.ts *)

initialResultsCurrent ==
    [effectiveDownPayment |-> Zero, financedBalance |-> Zero,
     interestAmount |-> Zero, monthlyRepayment |-> Zero,
     totalRepayment |-> Zero, chargesAppliedUpfront |-> Zero,
     chargesAddedToRepayment |-> Zero]

\* getAutoInterestRateCurrent with the rate growing with the tenure
getAutoInterestRateCurrentPerMonth(financedBalance, tenure) ==
    Mul(Frac(15, 2), tenure)

getAutoInterestRateCurrent(financedBalance, tenure) == Frac(15, 2)

\* validateCurrent as an if / else-if chain: only the first violation is kept
validateCurrentShortCircuit(i) ==
    LET minRequired == Mul(i.itemCost, Frac(3, 10))
        first == IF Le(i.itemCost, Zero) THEN "itemCost"
                 ELSE IF Lt(Add(i.downPayment, epsilon), minRequired)
                 THEN "downPayment"
                 ELSE IF Le(i.tenure, Zero) THEN "tenure"
                 ELSE IF Lt(i.merchantFee, Zero) THEN "merchantFee"
                 ELSE "none"
        bad == [f \in Fields |-> f = first]
        msg == [itemCost    |-> "Item cost must be greater than 0",
                downPayment |-> "Down payment must be at least 30% of item cost",
                tenure      |-> "Tenure must be greater than 0",
                merchantFee |-> "Merchant fee cannot be negative"]
    IN  ErrorObject(bad, msg)

\* validateCurrent with tenure < 0 in place of tenure <= 0
validateCurrentZeroTenure(i) ==
    LET minRequired == Mul(i.itemCost, Frac(3, 10))
        bad == [itemCost    |-> Le(i.itemCost, Zero),
                downPayment |-> Lt(Add(i.downPayment, epsilon), minRequired),
                tenure      |-> Lt(i.tenure, Zero),
                merchantFee |-> Lt(i.merchantFee, Zero)]
        msg == [itemCost    |-> "Item cost must be greater than 0",
                downPayment |-> "Down payment must be at least 30% of item cost",
                tenure      |-> "Tenure must be greater than 0",
                merchantFee |-> "Merchant fee cannot be negative"]
    IN  ErrorObject(bad, msg)

validateCurrent(i) ==
    LET minRequired == Mul(i.itemCost, Frac(3, 10))
        bad == [itemCost    |-> Le(i.itemCost, Zero),
                downPayment |-> Lt(Add(i.downPayment, epsilon), minRequired),
                tenure      |-> Le(i.tenure, Zero),
                merchantFee |-> Lt(i.merchantFee, Zero)]
        msg == [itemCost    |-> "Item cost must be greater than 0",
                downPayment |-> "Down payment must be at least 30% of item cost",
                tenure      |-> "Tenure must be greater than 0",
                merchantFee |-> "Merchant fee cannot be negative"]
    IN  ErrorObject(bad, msg)

\* which arm of if (chargesMode === 'upfront') { ... } else { ... } runs
feeBranchCurrent(i) ==
    IF i.chargesMode = "upfront" THEN "upfront" ELSE "repayment"

effectiveDownPaymentCurrent(i) ==
    IF feeBranchCurrent(i) = "upfront" THEN i.downPayment ELSE i.downPayment

\* chargesAppliedUpfrontCurrent reporting the charges as paid now in both modes
chargesAppliedUpfrontCurrentBothModes(i) ==
    IF feeBranchCurrent(i) = "upfront" THEN totalFixedCharges(i)
    ELSE totalFixedCharges(i)

chargesAppliedUpfrontCurrent(i) ==
    IF feeBranchCurrent(i) = "upfront" THEN totalFixedCharges(i) ELSE Zero

chargesAddedToRepaymentCurrent(i) ==
    IF feeBranchCurrent(i) = "upfront" THEN Zero ELSE Zero

\* financedBalanceCurrent with the charges added after the clamp at zero
financedBalanceCurrentClampFirst(i) ==
    Add(MathMax(Zero, Sub(i.itemCost, effectiveDownPaymentCurrent(i))),
        IF i.chargesMode = "repayment" THEN totalFixedCharges(i) ELSE Zero)

\* financedBalanceCurrent without the capitalized charges
financedBalanceCurrentNoCharges(i) ==
    MathMax(Zero, Sub(i.itemCost, effectiveDownPaymentCurrent(i)))

financedBalanceCurrent(i) ==
    MathMax(Zero,
            Add(Sub(i.itemCost, effectiveDownPaymentCurrent(i)),
                IF i.chargesMode = "repayment" THEN totalFixedCharges(i) ELSE Zero))

computeCurrent(i) ==
    LET effectiveDownPayment == effectiveDownPaymentCurrent(i)
        chargesAppliedUpfront == chargesAppliedUpfrontCurrent(i)
        chargesAddedToRepayment == chargesAddedToRepaymentCurrent(i)
        financedBalance == financedBalanceCurrent(i)
        interestRate == getAutoInterestRateCurrent(financedBalance, i.tenure)
        monthlyInterest == Mul(Div(interestRate, Num(100)), financedBalance)
        monthlyFinanceCost == Div(financedBalance, i.tenure)
        monthlyRepayment ==
            Add(Add(monthlyFinanceCost, monthlyInterest),
                Div(chargesAddedToRepayment, i.tenure))
        totalRepayment == Mul(monthlyRepayment, i.tenure)
    IN  [effectiveDownPayment |-> effectiveDownPayment,
         financedBalance |-> financedBalance,
         interestAmount |-> monthlyInterest,
         monthlyRepayment |-> monthlyRepayment,
         totalRepayment |-> totalRepayment,
         chargesAppliedUpfront |-> chargesAppliedUpfront,
         chargesAddedToRepayment |-> chargesAddedToRepayment]

----------------------------------------------------------------------------
(* Revision "feeAware": src/unnamed/part_002 *)

initialResultsFeeAware == initialResultsCurrent

getAutoInterestRateFeeAware(financedBalance, tenure) == Frac(15, 2)

\* validateFeeAware with itemCost < 0 in place of itemCost <= 0
validateFeeAwareZeroCost(i) ==
    LET totalChargesCheck ==
            Add(Mul(i.itemCost, Div(i.merchantFee, Num(100))), Num(6000))
        minRequired == Mul(i.itemCost, Frac(3, 10))
        netDP == Sub(i.downPayment, totalChargesCheck)
        bad == [itemCost    |-> Lt(i.itemCost, Zero),
                downPayment |-> ~isExactThirty(i) /\ Lt(netDP, minRequired),
                tenure      |-> Le(i.tenure, Zero),
                merchantFee |-> Lt(i.merchantFee, Zero)]
        msg == [itemCost    |-> "Item cost must be greater than 0",
                downPayment |-> "After fees, down payment must be at least 30% of item cost",
                tenure      |-> "Tenure must be greater than 0",
                merchantFee |-> "Merchant fee cannot be negative"]
    IN  ErrorObject(bad, msg)

validateFeeAware(i) ==
    LET percentageFeeCheck == Mul(i.itemCost, Div(i.merchantFee, Num(100)))
        adjustmentFeeCheck == Num(6000)
        totalChargesCheck == Add(percentageFeeCheck, adjustmentFeeCheck)
        minRequired == Mul(i.itemCost, Frac(3, 10))
        netDP == Sub(i.downPayment, totalChargesCheck)
        bad == [itemCost    |-> Le(i.itemCost, Zero),
                downPayment |-> ~isExactThirty(i) /\ Lt(netDP, minRequired),
                tenure      |-> Le(i.tenure, Zero),
                merchantFee |-> Lt(i.merchantFee, Zero)]
        msg == [itemCost    |-> "Item cost must be greater than 0",
                downPayment |-> "After fees, down payment must be at least 30% of item cost",
                tenure      |-> "Tenure must be greater than 0",
                merchantFee |-> "Merchant fee cannot be negative"]
    IN  ErrorObject(bad, msg)

\* which arm of if (isExactThirty) { if (chargesMode === 'upfront') ... } else
\* { ... } runs
feeBranchFeeAware(i) ==
    IF isExactThirty(i)
    THEN (IF i.chargesMode = "upfront" THEN "exactThirtyUpfront"
                                       ELSE "exactThirtyRepayment")
    ELSE "default"

effectiveDownPaymentFeeAware(i) ==
    CASE feeBranchFeeAware(i) = "exactThirtyUpfront" ->
             thirtyPercentOfItem(i.itemCost)
      [] feeBranchFeeAware(i) = "exactThirtyRepayment" ->
             thirtyPercentOfItem(i.itemCost)
      [] OTHER -> Sub(i.downPayment, totalFixedCharges(i))

chargesAppliedUpfrontFeeAware(i) ==
    CASE feeBranchFeeAware(i) = "exactThirtyUpfront" -> totalFixedCharges(i)
      [] feeBranchFeeAware(i) = "exactThirtyRepayment" -> Zero
      [] OTHER -> MathMin(totalFixedCharges(i), i.downPayment)

chargesAddedToRepaymentFeeAware(i) ==
    CASE feeBranchFeeAware(i) = "exactThirtyUpfront" -> Zero
      [] feeBranchFeeAware(i) = "exactThirtyRepayment" -> totalFixedCharges(i)
      [] OTHER -> Zero

financedBalanceFeeAware(i) ==
    MathMax(Zero, Sub(i.itemCost, effectiveDownPaymentFeeAware(i)))

computeFeeAware(i) ==
    LET effectiveDownPayment == effectiveDownPaymentFeeAware(i)
        chargesAppliedUpfront == chargesAppliedUpfrontFeeAware(i)
        chargesAddedToRepayment == chargesAddedToRepaymentFeeAware(i)
        financedBalance == financedBalanceFeeAware(i)
        interestRate == getAutoInterestRateFeeAware(financedBalance, i.tenure)
        interestAmount == Mul(Div(interestRate, Num(100)), financedBalance)
        monthlyFinanceCost == Div(financedBalance, i.tenure)
        monthlyRepayment ==
            Add(Add(monthlyFinanceCost, interestAmount),
                Div(chargesAddedToRepayment, i.tenure))
        totalRepayment == Mul(monthlyRepayment, i.tenure)
    IN  [effectiveDownPayment |-> effectiveDownPayment,
         financedBalance |-> financedBalance,
         interestAmount |-> interestAmount,
         monthlyRepayment |-> monthlyRepayment,
         totalRepayment |-> totalRepayment,
         chargesAppliedUpfront |-> chargesAppliedUpfront,
         chargesAddedToRepayment |-> chargesAddedToRepayment]

----------------------------------------------------------------------------
(* Revision "strict": src/unnamed/part_003 *)

initialResultsStrict ==
    [effectiveDownPayment |-> Zero, financedBalance |-> Zero,
     interestAmount |-> Zero, monthlyRepayment |-> Zero,
     totalRepayment |-> Zero]

normalizeTenure(tenure) ==
    IF Le(tenure, Num(4)) THEN (IF Le(tenure, Num(3)) THEN 3 ELSE 4)
    ELSE IF Le(tenure, Num(6)) THEN 6
    ELSE IF Le(tenure, Num(9)) THEN 9
    ELSE 12

\* tierOf with > in place of >= at the tier boundaries
tierOfExclusive(fb) ==
    IF Gt(fb, Num(1000000)) THEN "D"
    ELSE IF Gt(fb, Num(500000)) THEN "C"
    ELSE IF Gt(fb, Num(200000)) THEN "B"
    ELSE "A"

tierOf(fb) ==
    IF Ge(fb, Num(1000000)) THEN "D"
    ELSE IF Ge(fb, Num(500000)) THEN "C"
    ELSE IF Ge(fb, Num(200000)) THEN "B"
    ELSE "A"

rates ==
    [A |-> (3 :> Num(12) @@ 4 :> Num(12) @@ 6 :> Num(11) @@ 9 :> Num(10)
            @@ 12 :> Frac(19, 2)),
     B |-> (3 :> Frac(23, 2) @@ 4 :> Frac(23, 2) @@ 6 :> Frac(21, 2)
            @@ 9 :> Frac(19, 2) @@ 12 :> Num(9)),
     C |-> (3 :> Num(11) @@ 4 :> Num(11) @@ 6 :> Num(10) @@ 9 :> Num(9)
            @@ 12 :> Frac(17, 2)),
     D |-> (3 :> Num(10) @@ 4 :> Num(10) @@ 6 :> Num(9) @@ 9 :> Num(8)
            @@ 12 :> Frac(15, 2))]

getAutoInterestRateStrict(financedBalance, tenure) ==
    rates[tierOf(financedBalance)][normalizeTenure(tenure)]

\* validateStrict with the tolerance of the later revisions:
\* downPayment + 0.5 < thirtyPercentOfItem
validateStrictTolerant(i) ==
    LET bad == [itemCost    |-> Le(i.itemCost, Zero),
                downPayment |-> Lt(Add(i.downPayment, Frac(1, 2)),
                                   thirtyPercentOfItem(i.itemCost)),
                tenure      |-> Le(i.tenure, Zero),
                merchantFee |-> Lt(i.merchantFee, Zero)]
        msg == [itemCost    |-> "Item cost must be greater than 0",
                downPayment |-> "Down payment cannot be less than 30%",
                tenure      |-> "Tenure must be greater than 0",
                merchantFee |-> "Merchant fee cannot be negative"]
    IN  ErrorObject(bad, msg)

validateStrict(i) ==
    LET bad == [itemCost    |-> Le(i.itemCost, Zero),
                downPayment |-> Lt(i.downPayment, thirtyPercentOfItem(i.itemCost)),
                tenure      |-> Le(i.tenure, Zero),
                merchantFee |-> Lt(i.merchantFee, Zero)]
        msg == [itemCost    |-> "Item cost must be greater than 0",
                downPayment |-> "Down payment cannot be less than 30%",
                tenure      |-> "Tenure must be greater than 0",
                merchantFee |-> "Merchant fee cannot be negative"]
    IN  ErrorObject(bad, msg)

\* a === b on numbers (false when either side is NaN)
StrictEq(a, b) == ~isNaN(a) /\ ~isNaN(b) /\ a = b

\* which arm of if (downPayment > thirtyPercentOfItem) ... else if
\* (downPayment === thirtyPercentOfItem) ... else ... runs
feeBranchStrict(i) ==
    IF Gt(i.downPayment, thirtyPercentOfItem(i.itemCost)) THEN "aboveThreshold"
    ELSE IF StrictEq(i.downPayment, thirtyPercentOfItem(i.itemCost))
    THEN "exactThirty"
    ELSE "asIs"

\* effectiveDownPaymentStrict with the subtraction above the threshold reversed
effectiveDownPaymentStrictReversed(i) ==
    CASE feeBranchStrict(i) = "aboveThreshold" ->
             Sub(totalFixedCharges(i), i.downPayment)
      [] feeBranchStrict(i) = "exactThirty" ->
             Add(i.downPayment, totalFixedCharges(i))
      [] OTHER -> i.downPayment

effectiveDownPaymentStrict(i) ==
    CASE feeBranchStrict(i) = "aboveThreshold" ->
             Sub(i.downPayment, totalFixedCharges(i))
      [] feeBranchStrict(i) = "exactThirty" ->
             Add(i.downPayment, totalFixedCharges(i))
      [] OTHER -> i.downPayment

\* financedBalanceStrict without Math.max(0, ...)
financedBalanceStrictUnclamped(i) ==
    Sub(i.itemCost, effectiveDownPaymentStrict(i))

financedBalanceStrict(i) ==
    MathMax(Zero, Sub(i.itemCost, effectiveDownPaymentStrict(i)))

computeStrict(i) ==
    LET effectiveDownPayment == effectiveDownPaymentStrict(i)
        financedBalance == financedBalanceStrict(i)
        interestRate == getAutoInterestRateStrict(financedBalance, i.tenure)
        interestAmount == Mul(Div(interestRate, Num(100)), financedBalance)
        monthlyFinanceCost == Div(financedBalance, i.tenure)
        monthlyRepayment == Add(monthlyFinanceCost, interestAmount)
        totalRepayment == Mul(monthlyRepayment, i.tenure)
    IN  [effectiveDownPayment |-> effectiveDownPayment,
         financedBalance |-> financedBalance,
         interestAmount |-> interestAmount,
         monthlyRepayment |-> monthlyRepayment,
         totalRepayment |-> totalRepayment]

----------------------------------------------------------------------------
(* The hook as a state machine *)

Revisions == {"current", "feeAware", "strict"}

validate(r, i) ==
    CASE r = "current"  -> validateCurrent(i)
      [] r = "feeAware" -> validateFeeAware(i)
      [] r = "strict"   -> validateStrict(i)

compute(r, i) ==
    CASE r = "current"  -> computeCurrent(i)
      [] r = "feeAware" -> computeFeeAware(i)
      [] r = "strict"   -> computeStrict(i)

feeBranch(r, i) ==
    CASE r = "current"  -> feeBranchCurrent(i)
      [] r = "feeAware" -> feeBranchFeeAware(i)
      [] r = "strict"   -> feeBranchStrict(i)

initialResults(r) ==
    CASE r = "current"  -> initialResultsCurrent
      [] r = "feeAware" -> initialResultsFeeAware
      [] r = "strict"   -> initialResultsStrict

ChargesModes == {"upfront", "repayment"}

\* values offered to a single calculateLoan invocation on a fresh hook
ItemCosts == {Num(-1000), Zero, Num(1000), Num(20000), Num(100000), NaN}

DownPayments ==
    {Num(-500), Zero, Num(5999), Frac(11999, 2), Num(6000), Frac(12001, 2), Num(6001),
     Num(13000), Num(20000), Num(30000), NaN}

Tenures == {Num(-1), Zero, Num(1), Num(3), Num(12), NaN}

MerchantFees == {Num(-1), Zero, Frac(3, 2), Num(3), NaN}

Inputs ==
    [itemCost : ItemCosts, downPayment : DownPayments, tenure : Tenures,
     merchantFee : MerchantFees, chargesMode : ChargesModes]

\* values offered to the invocations of a session of any length
HookInputs ==
    [itemCost : {Zero, Num(20000), NaN},
     downPayment : {Zero, Num(6000), Num(30000)},
     tenure : {Zero, Num(3)},
     merchantFee : {Zero, Frac(3, 2)},
     chargesMode : ChargesModes]

noInputs ==
    [itemCost |-> Zero, downPayment |-> Zero, tenure |-> Zero,
     merchantFee |-> Zero, chargesMode |-> "upfront"]

\* the page's form state as first rendered; a text is the sequence of its
\* characters
initialForm ==
    [itemCost |-> <<>>, downPayment |-> <<>>, tenure |-> <<>>,
     interestRate |-> <<>>, merchantFee |-> <<"0">>, chargesMode |-> "upfront"]

\* the state after useCalculator() is first rendered
Init ==
    /\ rev \in Revisions
    /\ results = initialResults(rev)
    /\ isCalculated = FALSE
    /\ errors = NoErrors
    /\ inputs = noInputs
    /\ op = "init"
    /\ divisors = {}
    /\ branch = "none"
    /\ repeated = FALSE
    /\ form = initialForm

\* calculateLoan that computes from the inputs captured by the previous
\* invocation (a stale closure)
calculateLoanStale(i) ==
    LET e == validate(rev, i)
    IN  /\ inputs' = i
        /\ op' = "calculateLoan"
        /\ repeated' = (op = "calculateLoan" /\ inputs = i)
        /\ IF HasErrors(e)
           THEN /\ errors' = e
                /\ isCalculated' = FALSE
                /\ divisors' = {}
                /\ branch' = "none"
                /\ UNCHANGED results
           ELSE /\ errors' = NoErrors
                /\ results' = compute(rev, inputs)
                /\ divisors' = {inputs.tenure}
                /\ branch' = feeBranch(rev, inputs)
                /\ isCalculated' = TRUE
        /\ UNCHANGED <<rev, form>>

\* calculateLoan that omits setIsCalculated(false) when validation fails
calculateLoanKeepsFlag(i) ==
    LET e == validate(rev, i)
    IN  /\ inputs' = i
        /\ op' = "calculateLoan"
        /\ repeated' = (op = "calculateLoan" /\ inputs = i)
        /\ IF HasErrors(e)
           THEN /\ errors' = e
                /\ divisors' = {}
                /\ branch' = "none"
                /\ UNCHANGED <<results, isCalculated>>
           ELSE /\ errors' = NoErrors
                /\ results' = compute(rev, i)
                /\ divisors' = {i.tenure}
                /\ branch' = feeBranch(rev, i)
                /\ isCalculated' = TRUE
        /\ UNCHANGED <<rev, form>>

\* calculateLoan(inputs).  divisors and branch record what the invocation
\* executed: the denominators of financedBalance / tenure and
\* chargesAddedToRepayment / tenure, and the fee-handling arm taken.
calculateLoan(i) ==
    LET e == validate(rev, i)
    IN  /\ inputs' = i
        /\ op' = "calculateLoan"
        /\ repeated' = (op = "calculateLoan" /\ inputs = i)
        /\ IF HasErrors(e)
           THEN /\ errors' = e
                /\ isCalculated' = FALSE
                /\ divisors' = {}
                /\ branch' = "none"
                /\ UNCHANGED results
           ELSE /\ errors' = NoErrors
                /\ results' = compute(rev, i)
                /\ divisors' = {i.tenure}
                /\ branch' = feeBranch(rev, i)
                /\ isCalculated' = TRUE
        /\ UNCHANGED <<rev, form>>

\* clearErrors that also hides the summary
clearErrorsResetsFlag ==
    /\ errors' = NoErrors
    /\ isCalculated' = FALSE
    /\ op' = "clearErrors"
    /\ repeated' = FALSE
    /\ UNCHANGED <<rev, results, inputs, divisors, branch, form>>

clearErrors ==
    /\ errors' = NoErrors
    /\ op' = "clearErrors"
    /\ repeated' = FALSE
    /\ UNCHANGED <<rev, results, isCalculated, inputs, divisors, branch, form>>

\* a session of the hook: any sequence of calculateLoan and clearErrors
Next ==
    \/ \E i \in HookInputs : calculateLoan(i)
    \/ clearErrors

Spec == Init /\ [][Next]_vars

\* the first invocation on a freshly rendered hook, over the wide input set
firstCalculateLoan == op = "init" /\ \E i \in Inputs : calculateLoan(i)

NextCalc == firstCalculateLoan

SpecCalc == Init /\ [][NextCalc]_vars

\* the largest tenure offered to the tiered revision
MaxTenure == 13

\* values offered to the tiered revision: balances on both sides of every
\* tier boundary, every tenure from 1 to MaxTenure
TierInputs ==
    [itemCost : {Num(400000), Num(690000), Num(700000), Num(990000),
                 Num(1000000), Num(1100000), Num(1490000), Num(1500000)},
     downPayment : {Num(450000), Num(506000)},
     tenure : {Num(t) : t \in 1..MaxTenure},
     merchantFee : {Zero},
     chargesMode : {"upfront"}]

InitTier == Init /\ rev = "strict"

\* the first invocation on a freshly rendered hook of the tiered revision
firstCalculateLoanTiered ==
    op = "init" /\ \E i \in TierInputs : calculateLoan(i)

NextTier == firstCalculateLoanTiered

SpecTier == InitTier /\ [][NextTier]_vars

----------------------------------------------------------------------------
(* The calculator page: src/src/app/page.tsx (lines 1-250) with the result *)
(* card of src/unnamed/part_000.  A text is the sequence of its            *)
(* characters.                                                             *)

DigitChars == <<"0", "1", "2", "3", "4", "5", "6", "7", "8", "9">>

IsDigit(c) == \E k \in 1..10 : DigitChars[k] = c

DigitValue(c) == (CHOOSE k \in 1..10 : DigitChars[k] = c) - 1

\* the part of s that follows its first n characters
dropFirst(s, n) == SubSeq(s, n + 1, Len(s))

RECURSIVE trimStart(_)
trimStart(s) ==
    IF s # <<>> /\ Head(s) = " " THEN trimStart(Tail(s)) ELSE s

RECURSIVE trimEnd(_)
trimEnd(s) ==
    IF s # <<>> /\ s[Len(s)] = " " THEN trimEnd(SubSeq(s, 1, Len(s) - 1))
    ELSE s

\* String.prototype.trim(), white space being the space character
trim(s) == trimEnd(trimStart(s))

\* value.replace(/,/g, '')
removeCommas(s) == SelectSeq(s, LAMBDA c : c # ",")

\* the longest prefix of s made of digits
RECURSIVE digitPrefix(_)
digitPrefix(s) ==
    IF s # <<>> /\ IsDigit(Head(s)) THEN <<Head(s)>> \o digitPrefix(Tail(s))
    ELSE <<>>

RECURSIVE digitsValue(_)
digitsValue(ds) ==
    IF ds = <<>> THEN 0
    ELSE 10 * digitsValue(SubSeq(ds, 1, Len(ds) - 1)) + DigitValue(ds[Len(ds)])

RECURSIVE pow10(_)
pow10(n) == IF n = 0 THEN 1 ELSE 10 * pow10(n - 1)

\* parseFloat(text): leading white space is skipped, the longest prefix of
\* the form [+-]digits[.digits] is converted and the rest is ignored; NaN
\* when that prefix holds no digit.  Exponents and the word Infinity are not
\* part of the texts of this model.
parseFloat(text) ==
    LET s == trimStart(text)
        signed == s # <<>> /\ Head(s) \in {"+", "-"}
        body == IF signed THEN Tail(s) ELSE s
        intDigits == digitPrefix(body)
        rest == dropFirst(body, Len(intDigits))
        fracDigits == IF rest # <<>> /\ Head(rest) = "."
                      THEN digitPrefix(Tail(rest)) ELSE <<>>
        magnitude ==
            Frac(digitsValue(intDigits) * pow10(Len(fracDigits))
                     + digitsValue(fracDigits),
                 pow10(Len(fracDigits)))
    IN  IF intDigits = <<>> /\ fracDigits = <<>> THEN NaN
        ELSE IF signed /\ Head(s) = "-" THEN Neg(magnitude)
        ELSE magnitude

\* parseInt(text): as parseFloat, for the prefix [+-]digits
parseInt(text) ==
    LET s == trimStart(text)
        signed == s # <<>> /\ Head(s) \in {"+", "-"}
        body == IF signed THEN Tail(s) ELSE s
        intDigits == digitPrefix(body)
    IN  IF intDigits = <<>> THEN NaN
        ELSE IF signed /\ Head(s) = "-" THEN Num(-digitsValue(intDigits))
        ELSE Num(digitsValue(intDigits))

\* x || d on numbers: d when x is NaN or 0
orElse(x, d) == IF isNaN(x) \/ x = Zero THEN d ELSE x

\* /^[-+]?\d*(\.\d+)?$/.test(s)
isNumberString(s) ==
    LET signed == s # <<>> /\ Head(s) \in {"+", "-"}
        body == IF signed THEN Tail(s) ELSE s
        intDigits == digitPrefix(body)
        rest == dropFirst(body, Len(intDigits))
    IN  \/ rest = <<>>
        \/ /\ Head(rest) = "."
           /\ Len(rest) > 1
           /\ digitPrefix(Tail(rest)) = Tail(rest)

\* intPart.replace(/\B(?=(\d{3})+(?!\d))/g, ','): a comma goes between two
\* digits that are followed by a multiple of three digits
RECURSIVE withCommas(_)
withCommas(intPart) ==
    IF Len(intPart) <= 1 THEN intPart
    ELSE LET c == Head(intPart)
             after == Tail(intPart)
         IN  IF IsDigit(c) /\ Len(after) % 3 = 0
             THEN <<c, ",">> \o withCommas(after)
             ELSE <<c>> \o withCommas(after)

formatNumberStringPreserveDecimals(value) ==
    LET trimmed == removeCommas(trim(value))
        dots == {k \in 1..Len(trimmed) : trimmed[k] = "."}
        intPart == IF dots = {} THEN trimmed
                   ELSE SubSeq(trimmed, 1, (CHOOSE k \in dots : TRUE) - 1)
        fracPart == IF dots = {} THEN <<>>
                    ELSE dropFirst(trimmed, CHOOSE k \in dots : TRUE)
    IN  IF trimmed = <<>> THEN <<>>
        ELSE IF ~isNumberString(trimmed) THEN value
        ELSE IF dots # {} THEN withCommas(intPart) \o <<".">> \o fracPart
        ELSE withCommas(intPart)

\* texts typed into the four inputs; every input but the merchant fee starts
\* blank
ItemCostTexts == {<<>>, <<"2", "0", "0", "0", "0">>, <<"x">>}

DownPaymentTexts ==
    {<<"6", "0", "0", "0">>, <<"7", "0", "0", "0", ".", "5">>}

TenureTexts == {<<"3">>, <<"9">>}

MerchantFeeTexts == {<<"0">>, <<"1", ".", "5">>}

\* the interest rate the effect shows for the form f
interestRateFor(f) ==
    LET ic == parseFloat(trim(removeCommas(f.itemCost)))
        tn == parseInt(trim(f.tenure))
        mf == parseFloat(trim(f.merchantFee))
    IN  IF /\ ~isNaN(ic) /\ Gt(ic, Zero)
           /\ ~isNaN(tn) /\ Gt(tn, Zero)
           /\ ~isNaN(mf) /\ Ge(mf, Zero)
        THEN <<"7", ".", "5">>
        ELSE <<>>

\* the render that follows a change of itemCost, tenure or merchantFee: the
\* effect calls clearErrors() and sets the interest rate
useEffect(f) ==
    /\ form' = [f EXCEPT !.interestRate = interestRateFor(f)]
    /\ errors' = NoErrors
    /\ op' = "clearErrors"
    /\ repeated' = FALSE
    /\ UNCHANGED <<rev, results, isCalculated, inputs, divisors, branch>>

\* the render that follows a change of downPayment or chargesMode, which are
\* not among the effect's dependencies
noEffect(f) ==
    /\ form' = f
    /\ UNCHANGED <<rev, results, isCalculated, errors, inputs, op, divisors,
                   branch, repeated>>

setItemCost(t) ==
    /\ t # form.itemCost
    /\ useEffect([form EXCEPT !.itemCost = t])

setDownPayment(t) ==
    /\ t # form.downPayment
    /\ noEffect([form EXCEPT !.downPayment = t])

setTenure(t) ==
    /\ t # form.tenure
    /\ useEffect([form EXCEPT !.tenure = t])

setMerchantFee(t) ==
    /\ t # form.merchantFee
    /\ useEffect([form EXCEPT !.merchantFee = t])

setChargesMode(m) ==
    /\ m # form.chargesMode
    /\ noEffect([form EXCEPT !.chargesMode = m])

handleItemCostBlur ==
    /\ formatNumberStringPreserveDecimals(form.itemCost) # form.itemCost
    /\ useEffect([form EXCEPT
                      !.itemCost = formatNumberStringPreserveDecimals(@)])

handleDownPaymentBlur ==
    /\ formatNumberStringPreserveDecimals(form.downPayment) # form.downPayment
    /\ noEffect([form EXCEPT
                     !.downPayment = formatNumberStringPreserveDecimals(@)])

\* isFormValid: the button is disabled while a field is blank
isFormValid ==
    /\ trim(form.itemCost) # <<>>
    /\ trim(form.downPayment) # <<>>
    /\ trim(form.tenure) # <<>>
    /\ trim(form.merchantFee) # <<>>

\* the inputs handleCalculate builds from the form
formInputs(f) ==
    [itemCost |-> orElse(parseFloat(trim(removeCommas(f.itemCost))), Zero),
     downPayment |-> orElse(parseFloat(trim(removeCommas(f.downPayment))), Zero),
     tenure |-> MathMin(MathMax(orElse(parseInt(trim(f.tenure)), Num(1)),
                                Num(1)),
                        Num(4)),
     merchantFee |-> orElse(parseFloat(trim(f.merchantFee)), Zero),
     chargesMode |-> f.chargesMode]

handleCalculate ==
    /\ isFormValid
    /\ calculateLoan(formInputs(form))

\* the amount a ResultCard shows, digit grouping aside: 0 for a value that is
\* not finite
formatCurrency(amount) == IF ~isFinite(amount) THEN Zero ELSE amount

\* value of the "Down Payment" card, computed from the form at render time
downPaymentCard(f) ==
    LET ic == orElse(parseFloat(trim(removeCommas(f.itemCost))), Zero)
        dp == orElse(parseFloat(trim(removeCommas(f.downPayment))), Zero)
        mf == orElse(parseFloat(trim(f.merchantFee)), Zero)
        percentageFeeShown == Mul(ic, Div(mf, Num(100)))
        totalCharges == Add(percentageFeeShown, Num(6000))
    IN  IF f.chargesMode = "upfront" THEN Add(dp, totalCharges) ELSE dp

\* the amounts of the Repayment Summary, rendered while isCalculated
RepaymentSummary ==
    [downPayment |-> formatCurrency(downPaymentCard(form)),
     financedBalance |-> formatCurrency(results.financedBalance),
     interestAmount |-> formatCurrency(results.interestAmount),
     monthlyRepayment |-> formatCurrency(results.monthlyRepayment),
     totalRepayment |-> formatCurrency(results.totalRepayment)]

InitPage == Init /\ rev = "current"

\* a session on the page: edits, blurs, fee-mode changes and Calculate clicks
NextPage ==
    \/ \E t \in ItemCostTexts : setItemCost(t)
    \/ \E t \in DownPaymentTexts : setDownPayment(t)
    \/ \E t \in TenureTexts : setTenure(t)
    \/ \E t \in MerchantFeeTexts : setMerchantFee(t)
    \/ \E m \in ChargesModes : setChargesMode(m)
    \/ handleItemCostBlur
    \/ handleDownPaymentBlur
    \/ handleCalculate

SpecPage == InitPage /\ [][NextPage]_vars

----------------------------------------------------------------------------
(* Properties *)

\* the last operation was a calculateLoan invocation
Invoked == op = "calculateLoan"

\* the invocation passed validation and wrote its result
Succeeded ==
    /\ errors = NoErrors
    /\ isCalculated
    /\ results = compute(rev, inputs)

\* 0.30 * itemCost and the charges, written out from the inputs
Thirty(i) == Mul(i.itemCost, Frac(3, 10))

Charges(i) == Add(Mul(i.itemCost, Div(i.merchantFee, Num(100))), Num(6000))

WithinEpsilon(i) ==
    /\ Le(Sub(i.downPayment, Thirty(i)), Frac(1, 2))
    /\ Le(Sub(Thirty(i), i.downPayment), Frac(1, 2))

C1_Pre(i) ==
    /\ Gt(i.itemCost, Zero)
    /\ Ge(i.downPayment, Thirty(i))
    /\ Ge(i.tenure, Num(1))
    /\ Le(i.tenure, Num(12))
    /\ Ge(i.merchantFee, Zero)

\* C1 (as claimed): in every revision, an invocation with itemCost > 0,
\* downPayment >= 0.30*itemCost, tenure in 1..12 and merchantFee >= 0 ends
\* with no errors, isCalculated = true and a written result whose
\* financedBalance >= 0.
C1_EveryRevisionAccepts ==
    (Invoked /\ C1_Pre(inputs))
        => (Succeeded /\ Ge(results.financedBalance, Zero))

\* C1 (amended): the same for the current hook and the strict revision; in the
\* fee-aware revision it holds when, in addition, the down payment net of the
\* charges is at least 0.30*itemCost or the down payment is within 0.5 of
\* 0.30*itemCost.
C1_AcceptedInputsSucceed ==
    (/\ Invoked
     /\ C1_Pre(inputs)
     /\ rev = "feeAware" =>
            \/ WithinEpsilon(inputs)
            \/ Ge(Sub(inputs.downPayment, Charges(inputs)), Thirty(inputs)))
        => (Succeeded /\ Ge(results.financedBalance, Zero))

C1_Witness ==
    /\ Invoked
    /\ C1_Pre(inputs)
    /\ rev = "feeAware"
    /\ ~WithinEpsilon(inputs)
    /\ Succeeded
    /\ Gt(results.financedBalance, Zero)

\* C2: every invocation with itemCost <= 0, whatever the other inputs, ends
\* with the itemCost entry "Item cost must be greater than 0" in the error
\* set, isCalculated = false and no result written.
C2_ItemCostRejected ==
    (Invoked /\ Le(inputs.itemCost, Zero))
        => /\ "itemCost" \in DOMAIN errors
           /\ errors["itemCost"] = "Item cost must be greater than 0"
           /\ ~isCalculated
           /\ results = initialResults(rev)

C2_Witness ==
    /\ Invoked
    /\ Le(inputs.itemCost, Zero)
    /\ inputs.itemCost = Zero
    /\ DOMAIN errors = {"itemCost"}

\* C3: every invocation with tenure <= 0 ends with the tenure entry "Tenure
\* must be greater than 0" and evaluates no division by tenure; no invocation
\* ever divides by a tenure <= 0.
C3_TenureRejectedBeforeDivision ==
    /\ (Invoked /\ Le(inputs.tenure, Zero))
           => /\ "tenure" \in DOMAIN errors
              /\ errors["tenure"] = "Tenure must be greater than 0"
              /\ divisors = {}
    /\ \A d \in divisors : ~Le(d, Zero)

C3_Witness ==
    /\ Invoked
    /\ inputs.tenure = Zero
    /\ DOMAIN errors = {"tenure"}
    /\ divisors = {}

\* C4: a result and a non-empty error set are mutually exclusive: in every
\* state of a session isCalculated = true implies errors is empty, and an
\* invocation leaves either errors non-empty with isCalculated = false, or
\* errors empty with isCalculated = true and a freshly written result.
C4_ResultAndErrorsExclusive ==
    /\ isCalculated => errors = NoErrors
    /\ Invoked =>
           \/ HasErrors(errors) /\ ~isCalculated
           \/ Succeeded

\* a failed invocation after a successful one: an older result is still held
C4_Witness ==
    /\ Invoked
    /\ HasErrors(errors)
    /\ ~isCalculated
    /\ results # initialResults(rev)

\* C5: results.financedBalance >= 0 in every reachable state of a session, in
\* every revision.
C5_FinancedBalanceNonNegative == Ge(results.financedBalance, Zero)


\* C6: the state an invocation leaves is a function of its inputs alone
\* (errors from validation, isCalculated iff there is no error, the result of
\* the inputs when accepted), whatever state the session was in; and invoking
\* calculateLoan a second time in a row with the same inputs changes nothing.
C6_PureFunctionOfInputs ==
    [][op' = "calculateLoan" =>
          /\ errors' = validate(rev, inputs')
          /\ isCalculated' = ~HasErrors(errors')
          /\ isCalculated' => results' = compute(rev, inputs')
          /\ (op = "calculateLoan" /\ inputs' = inputs) =>
                 /\ results' = results
                 /\ errors' = errors
                 /\ isCalculated' = isCalculated]_vars

\* an accepted invocation that repeats the inputs of the invocation before it
C6_Witness ==
    /\ Invoked
    /\ repeated
    /\ Succeeded
    /\ Gt(results.financedBalance, Zero)

\* C7: validation in the current hook collects every violation: the error set
\* has an itemCost entry iff itemCost <= 0, a downPayment entry iff
\* downPayment + 0.5 < 0.30*itemCost, a tenure entry iff tenure <= 0 and a
\* merchantFee entry iff merchantFee < 0, each with its own message.
C7_AllViolationsCollected ==
    (Invoked /\ rev = "current") =>
        /\ DOMAIN errors \subseteq Fields
        /\ "itemCost" \in DOMAIN errors <=> Le(inputs.itemCost, Zero)
        /\ "downPayment" \in DOMAIN errors
               <=> Lt(Add(inputs.downPayment, Frac(1, 2)), Thirty(inputs))
        /\ "tenure" \in DOMAIN errors <=> Le(inputs.tenure, Zero)
        /\ "merchantFee" \in DOMAIN errors <=> Lt(inputs.merchantFee, Zero)
        /\ \A f \in DOMAIN errors :
               errors[f] =
                   CASE f = "itemCost" -> "Item cost must be greater than 0"
                     [] f = "downPayment" ->
                            "Down payment must be at least 30% of item cost"
                     [] f = "tenure" -> "Tenure must be greater than 0"
                     [] f = "merchantFee" -> "Merchant fee cannot be negative"

\* all four rules violated by one invocation
C7_Witness ==
    /\ Invoked
    /\ rev = "current"
    /\ DOMAIN errors = Fields

OthersValid(i) ==
    /\ Gt(i.itemCost, Zero)
    /\ Gt(i.tenure, Zero)
    /\ Ge(i.merchantFee, Zero)

\* the fee-handling arms that accepted inputs with a down payment more than
\* 0.5 above 0.30*itemCost are processed by
AboveThresholdBranches(r) ==
    {feeBranch(r, j) :
        j \in {k \in Inputs : /\ OthersValid(k)
                              /\ Gt(Sub(k.downPayment, Thirty(k)), Frac(1, 2))
                              /\ ~HasErrors(validate(r, k))}}

Capitalized(i) == IF i.chargesMode = "repayment" THEN Charges(i) ELSE Zero

AllFinite(i) ==
    /\ isFinite(i.itemCost)
    /\ isFinite(i.downPayment)
    /\ isFinite(i.tenure)
    /\ isFinite(i.merchantFee)

\* C9 (as claimed, here already for finite inputs): after every successful
\* calculateLoan in the current hook, effectiveDownPayment + financedBalance
\* = itemCost + capitalized charges.
C9_Reconciles ==
    (Invoked /\ rev = "current" /\ Succeeded /\ AllFinite(inputs))
        => Add(results.effectiveDownPayment, results.financedBalance)
               = Add(inputs.itemCost, Capitalized(inputs))

\* C9 (amended): the same for every accepted input whose down payment does not
\* exceed itemCost + capitalized charges (the balance is not clamped).
C9_ReconcilesUnclamped ==
    (/\ Invoked
     /\ rev = "current"
     /\ Succeeded
     /\ Le(inputs.downPayment, Add(inputs.itemCost, Capitalized(inputs))))
        => Add(results.effectiveDownPayment, results.financedBalance)
               = Add(inputs.itemCost, Capitalized(inputs))

\* a down payment above the item cost that the capitalized charges still cover
C9_Witness ==
    /\ Invoked
    /\ rev = "current"
    /\ Succeeded
    /\ inputs.chargesMode = "repayment"
    /\ Gt(inputs.merchantFee, Zero)
    /\ Lt(inputs.downPayment, Add(inputs.itemCost, Capitalized(inputs)))
    /\ Gt(inputs.downPayment, inputs.itemCost)

\* C10 (as claimed, here already for finite inputs): in the current hook, for
\* every accepted input, financedBalance = max(0, itemCost -
\* effectiveDownPayment) + C, with C = totalFixedCharges in 'repayment' mode
\* and 0 in 'upfront' mode: the charges are added after the clamp at zero.
C10_ChargesAddedAfterClamp ==
    (Invoked /\ rev = "current" /\ Succeeded /\ AllFinite(inputs))
        => results.financedBalance
               = Add(MathMax(Zero, Sub(inputs.itemCost,
                                       results.effectiveDownPayment)),
                     Capitalized(inputs))

\* C10 (amended): financedBalance = max(0, itemCost - effectiveDownPayment
\* + C): the charges are added before the clamp at zero.
C10_ChargesAddedBeforeClamp ==
    (Invoked /\ rev = "current" /\ Succeeded)
        => results.financedBalance
               = MathMax(Zero, Add(Sub(inputs.itemCost,
                                       results.effectiveDownPayment),
                                   Capitalized(inputs)))

\* a down payment above the item cost in 'repayment' mode, where the two
\* formulas differ
C10_Witness ==
    /\ Invoked
    /\ rev = "current"
    /\ Succeeded
    /\ inputs.chargesMode = "repayment"
    /\ Gt(inputs.downPayment, inputs.itemCost)
    /\ Gt(results.financedBalance, Zero)
    /\ Lt(results.financedBalance, Capitalized(inputs))


\* C11: in the threshold-subtract (strict) revision, for accepted inputs, a
\* down payment within 0.5 of 0.30*itemCost gives effectiveDownPayment =
\* downPayment + totalFixedCharges, a down payment above that gives
\* downPayment - totalFixedCharges, financedBalance = max(0, itemCost -
\* effectiveDownPayment); itemCost=100000, downPayment=30000, tenure=3,
\* merchantFee=0 gives 36000 and 64000.
C11_ThresholdSubtractWithinEpsilon ==
    (Invoked /\ rev = "strict" /\ Succeeded /\ AllFinite(inputs)) =>
        /\ WithinEpsilon(inputs) =>
               results.effectiveDownPayment
                   = Add(inputs.downPayment, Charges(inputs))
        /\ Gt(Sub(inputs.downPayment, Thirty(inputs)), Frac(1, 2)) =>
               results.effectiveDownPayment
                   = Sub(inputs.downPayment, Charges(inputs))
        /\ results.financedBalance
               = MathMax(Zero, Sub(inputs.itemCost,
                                   results.effectiveDownPayment))
        /\ (/\ inputs.itemCost = Num(100000)
            /\ inputs.downPayment = Num(30000)
            /\ inputs.tenure = Num(3)
            /\ inputs.merchantFee = Zero) =>
               /\ Charges(inputs) = Num(6000)
               /\ results.effectiveDownPayment = Num(36000)
               /\ results.financedBalance = Num(64000)

\* C12: under the strict policy every invocation with downPayment <
\* 0.30*itemCost ends with the downPayment entry "Down payment cannot be less
\* than 30%", isCalculated = false and no result written; itemCost=100000,
\* downPayment=20000, tenure=3, merchantFee=0 gives exactly that one entry.
C12_StrictRejectsBelowThirty ==
    (Invoked /\ rev = "strict" /\ Lt(inputs.downPayment, Thirty(inputs))) =>
        /\ "downPayment" \in DOMAIN errors
        /\ errors["downPayment"] = "Down payment cannot be less than 30%"
        /\ ~isCalculated
        /\ results = initialResults(rev)
        /\ (/\ inputs.itemCost = Num(100000)
            /\ inputs.downPayment = Num(20000)
            /\ inputs.tenure = Num(3)
            /\ inputs.merchantFee = Zero) =>
               DOMAIN errors = {"downPayment"}

C12_Witness ==
    /\ Invoked
    /\ rev = "strict"
    /\ inputs.itemCost = Num(100000)
    /\ inputs.downPayment = Num(20000)
    /\ inputs.tenure = Num(3)
    /\ inputs.merchantFee = Zero
    /\ DOMAIN errors = {"downPayment"}
    /\ ~isCalculated


\* the tenure bucket, the tier and the rate table (in half percents) of the
\* tiered auto rate
TableBucket(t) ==
    IF t <= 3 THEN 1 ELSE IF t = 4 THEN 2 ELSE IF t <= 6 THEN 3
    ELSE IF t <= 9 THEN 4 ELSE 5

TableTier(fb) ==
    IF Ge(fb, Num(1000000)) THEN "D"
    ELSE IF Ge(fb, Num(500000)) THEN "C"
    ELSE IF Ge(fb, Num(200000)) THEN "B"
    ELSE "A"

TableHalfPercents ==
    [A |-> <<24, 24, 22, 20, 19>>,
     B |-> <<23, 23, 21, 19, 18>>,
     C |-> <<22, 22, 20, 18, 17>>,
     D |-> <<20, 20, 18, 16, 15>>]

TableRate(fb, t) == Frac(TableHalfPercents[TableTier(fb)][TableBucket(t)], 2)

\* C13: in the tiered revision, for every financedBalance >= 0 and integer
\* tenure >= 1 the rate applied is the table entry for the tier of the
\* financedBalance computed after fee handling and the bucket of the tenure,
\* and interestAmount = rate/100 * financedBalance; financedBalance=600000,
\* tenure=6 gives rate 10 and interestAmount 60000.
C13_TieredRate ==
    (/\ Invoked
     /\ rev = "strict"
     /\ Succeeded
     /\ Ge(results.financedBalance, Zero)
     /\ inputs.tenure[2] = 1
     /\ inputs.tenure[1] >= 1) =>
        /\ getAutoInterestRateStrict(results.financedBalance, inputs.tenure)
               = TableRate(results.financedBalance, inputs.tenure[1])
        /\ results.interestAmount
               = Mul(Div(TableRate(results.financedBalance, inputs.tenure[1]),
                         Num(100)),
                     results.financedBalance)
        /\ (results.financedBalance = Num(600000) /\ inputs.tenure = Num(6)) =>
               /\ TableRate(results.financedBalance, inputs.tenure[1]) = Num(10)
               /\ results.interestAmount = Num(60000)

\* financedBalance 600000 over 6 months
C13_Witness ==
    /\ Invoked
    /\ rev = "strict"
    /\ Succeeded
    /\ results.financedBalance = Num(600000)
    /\ inputs.tenure = Num(6)
    /\ results.interestAmount = Num(60000)

\* a balance that reaches tier B only through the charges
C13_WitnessAfterFees ==
    /\ Invoked
    /\ rev = "strict"
    /\ Succeeded
    /\ Lt(Sub(inputs.itemCost, inputs.downPayment), Num(200000))
    /\ results.financedBalance = Num(200000)


\* C14: an invocation whose itemCost, downPayment, tenure or merchantFee is
\* NaN ends with an error entry for that field and isCalculated = false, and
\* the results never contain NaN.
C14_NaNFailsValidation ==
    (Invoked /\ rev = "current") =>
        /\ \A f \in Fields :
               isNaN(inputs[f]) => (f \in DOMAIN errors /\ ~isCalculated)
        /\ \A k \in DOMAIN results : ~isNaN(results[k])


\* the financed balance does not change when only the merchant fee changes
FeeIndependentBalance(i) ==
    \A f \in {m \in MerchantFees : Ge(m, Zero)} :
        financedBalanceCurrent([i EXCEPT !.merchantFee = f])
            = financedBalanceCurrent(i)

C16_RepaymentFormulas ==
    (Invoked /\ rev = "current" /\ Succeeded) =>
        /\ results.interestAmount
               = Mul(Frac(75, 1000), results.financedBalance)
        /\ results.monthlyRepayment
               = Add(Add(Div(results.financedBalance, inputs.tenure),
                         results.interestAmount),
                     Div(results.chargesAddedToRepayment, inputs.tenure))
        /\ results.totalRepayment
               = Mul(results.monthlyRepayment, inputs.tenure)
        /\ results.totalRepayment
               = Add(Add(results.financedBalance,
                         Mul(inputs.tenure, results.interestAmount)),
                     results.chargesAddedToRepayment)

\* 20000 / 6000 / 3 months: balance 14000, interest 1050 a month, 17150 in
\* total, the down payment of 6000 not included
C16_Witness ==
    /\ Invoked
    /\ rev = "current"
    /\ Succeeded
    /\ inputs.tenure = Num(3)
    /\ inputs.downPayment = Num(6000)
    /\ results.financedBalance = Num(14000)
    /\ results.interestAmount = Num(1050)
    /\ results.monthlyRepayment = Frac(17150, 3)
    /\ results.totalRepayment = Num(17150)


\* C17: with itemCost > 0 and the other inputs fixed, totalFixedCharges =
\* itemCost * merchantFee/100 + 6000 is non-decreasing in merchantFee: for
\* accepted merchantFee values f1 <= f2, totalFixedCharges(f1) <=
\* totalFixedCharges(f2).
C17_ChargesMonotone ==
    (Invoked /\ rev = "current" /\ Succeeded /\ Gt(inputs.itemCost, Zero)) =>
        /\ totalFixedCharges(inputs) = Charges(inputs)
        /\ inputs.chargesMode = "upfront" =>
               results.chargesAppliedUpfront = Charges(inputs)
        /\ \A f \in MerchantFees :
               LET other == [inputs EXCEPT !.merchantFee = f]
               IN  (validate(rev, other) = NoErrors) =>
                       /\ Le(inputs.merchantFee, f) =>
                              Le(totalFixedCharges(inputs),
                                 totalFixedCharges(other))
                       /\ Le(f, inputs.merchantFee) =>
                              Le(totalFixedCharges(other),
                                 totalFixedCharges(inputs))

\* item cost 20000 with a merchant fee of 1.5%: 6300 of charges, more than the
\* 6000 of a zero fee and less than the 6600 of a 3% fee
C17_Witness ==
    /\ Invoked
    /\ rev = "current"
    /\ Succeeded
    /\ inputs.itemCost = Num(20000)
    /\ inputs.merchantFee = Frac(3, 2)
    /\ inputs.chargesMode = "upfront"
    /\ results.chargesAppliedUpfront = Num(6300)
    /\ totalFixedCharges([inputs EXCEPT !.merchantFee = Zero]) = Num(6000)
    /\ totalFixedCharges([inputs EXCEPT !.merchantFee = Num(3)]) = Num(6600)


\* C19: results changes only on a successful calculation: an invocation that
\* fails validation leaves results unchanged (only errors and isCalculated
\* change), and clearErrors leaves results and isCalculated unchanged and sets
\* errors to empty.
C19_ResultsFrame ==
    [][/\ (op' = "calculateLoan" /\ HasErrors(validate(rev, inputs'))) =>
              /\ results' = results
              /\ errors' = validate(rev, inputs')
              /\ isCalculated' = FALSE
       /\ op' = "clearErrors" =>
              /\ results' = results
              /\ isCalculated' = isCalculated
              /\ errors' = NoErrors
       /\ results' # results =>
              /\ op' = "calculateLoan"
              /\ ~HasErrors(validate(rev, inputs'))
              /\ isCalculated']_vars

\* clearErrors after a failed invocation that followed a successful one: the
\* older result is still held and the summary stays hidden
C19_Witness ==
    /\ op = "clearErrors"
    /\ errors = NoErrors
    /\ ~isCalculated
    /\ HasErrors(validate(rev, inputs))
    /\ results # initialResults(rev)

\* clearErrors after a successful invocation: result and flag kept
C19_WitnessKept ==
    /\ op = "clearErrors"
    /\ isCalculated
    /\ results = compute(rev, inputs)


\* C20: in the fee-aware revision, for every accepted input with itemCost > 0,
\* financedBalance <= 0.70*itemCost: it equals itemCost - 0.30*itemCost when
\* the down payment is within epsilon of 30%, and otherwise the down payment
\* net of charges is at least 30% of the item cost.
C20_FeeAwareBalanceBound ==
    (Invoked /\ rev = "feeAware" /\ Succeeded /\ Gt(inputs.itemCost, Zero)) =>
        /\ Le(results.financedBalance, Mul(Frac(7, 10), inputs.itemCost))
        /\ WithinEpsilon(inputs) =>
               results.financedBalance
                   = Sub(inputs.itemCost, Thirty(inputs))
        /\ ~WithinEpsilon(inputs) =>
               Ge(Sub(inputs.downPayment, Charges(inputs)), Thirty(inputs))


\* the amounts the Repayment Summary shows for the inputs i of a successful
\* Calculate
SummaryOf(i) ==
    [downPayment |->
         IF i.chargesMode = "upfront" THEN Add(i.downPayment, Charges(i))
         ELSE i.downPayment,
     financedBalance |-> compute(rev, i).financedBalance,
     interestAmount |-> compute(rev, i).interestAmount,
     monthlyRepayment |-> compute(rev, i).monthlyRepayment,
     totalRepayment |-> compute(rev, i).totalRepayment]

\* C18: over any sequence of input edits, fee-mode changes and Calculate
\* clicks, whenever the Repayment Summary is shown (isCalculated = true) every
\* amount in it (Down Payment, Financed Balance, Interest Amount, Monthly
\* Repayment, Total Repayment) is the value belonging to the inputs of the
\* most recent successful Calculate, never one derived from inputs edited
\* afterwards.  While isCalculated holds, inputs is the argument of that
\* Calculate.
C18_SummaryShowsLastCalculate ==
    isCalculated =>
        /\ validate(rev, inputs) = NoErrors
        /\ RepaymentSummary = SummaryOf(inputs)


\* the balance the revision computes for the inputs i with down payment d
BalanceWith(i, d) ==
    compute(rev, [i EXCEPT !.downPayment = d]).financedBalance

AcceptedWith(i, d) == validate(rev, [i EXCEPT !.downPayment = d]) = NoErrors

\* C21 (as claimed, here already for finite inputs): in the strict revision,
\* with itemCost, tenure and merchantFee fixed, financedBalance is
\* non-increasing in the down payment over accepted inputs: for accepted down
\* payments d1 <= d2, financedBalance(d2) <= financedBalance(d1).
C21_NonIncreasingInDownPayment ==
    (Invoked /\ rev = "strict" /\ Succeeded /\ AllFinite(inputs)) =>
        \A d \in DownPayments :
            (AcceptedWith(inputs, d) /\ Le(inputs.downPayment, d)) =>
                Le(BalanceWith(inputs, d), results.financedBalance)

\* C21 (amended): with itemCost > 0, tenure > 0 and merchantFee >= 0 fixed,
\* financedBalance = max(0, itemCost - (downPayment - totalFixedCharges)) is
\* non-increasing over the down payments strictly above 0.30*itemCost; a down
\* payment of exactly 0.30*itemCost has the charges added instead, giving
\* max(0, itemCost - downPayment - totalFixedCharges).
C21_NonIncreasingAboveThreshold ==
    (Invoked /\ rev = "strict" /\ Succeeded /\ OthersValid(inputs)) =>
        /\ Gt(inputs.downPayment, Thirty(inputs)) =>
               /\ results.financedBalance
                      = MathMax(Zero,
                                Sub(inputs.itemCost,
                                    Sub(inputs.downPayment, Charges(inputs))))
               /\ \A d \in DownPayments :
                      (/\ AcceptedWith(inputs, d)
                       /\ Gt(d, Thirty(inputs))
                       /\ Le(inputs.downPayment, d)) =>
                          Le(BalanceWith(inputs, d), results.financedBalance)
        /\ inputs.downPayment = Thirty(inputs) =>
               results.financedBalance
                   = MathMax(Zero,
                             Sub(Sub(inputs.itemCost, inputs.downPayment),
                                 Charges(inputs)))

\* item cost 20000 with a down payment of 6001, just above the threshold:
\* balance 19999, above the 8000 of the exact 6000 and the 13000 of 13000
C21_Witness ==
    /\ Invoked
    /\ rev = "strict"
    /\ Succeeded
    /\ inputs.itemCost = Num(20000)
    /\ inputs.downPayment = Num(6001)
    /\ inputs.merchantFee = Zero
    /\ results.financedBalance = Num(19999)
    /\ AcceptedWith(inputs, Num(6000))
    /\ BalanceWith(inputs, Num(6000)) = Num(8000)
    /\ AcceptedWith(inputs, Num(13000))
    /\ BalanceWith(inputs, Num(13000)) = Num(13000)

====
